---- MODULE Spec2Model ----
(***************************************************************************)
(* A model of the renderer server's request loop                           *)
(* (src/src/renderer_server.rs): `serve`, which receives client requests   *)
(* and spawns one `run_request` task per request, and the ordering         *)
(* protocol between them (the one-shot `data_req_queued` channel).         *)
(*                                                                         *)
(* `serve` and `run_request` are translated from the source.  The handlers *)
(* (`handlers::*`), `AccessControl`, the display list and the event queue  *)
(* live in other modules of the crate; their steps are modelled from the   *)
(* specification (sections 4.2 - 4.5).                                     *)
(***************************************************************************)
EXTENDS Integers, Sequences, FiniteSets, TLC

\* ------------------------------------------------------------------ bounds

\* Requests the clients send in one run.
MaxRequests == 3

\* Requests the clients send in one run when they send every request kind.
MaxRequestsAllKinds == 2

\* Requests the clients send in one run of the specifications with short
\* runs (two clients; property writes and reads).
MaxRequestsShort == 2

\* Events the renderer pushes to the event queue in one run.
MaxEvents == 1

\* Events the renderer pushes in one run whose clients poll for two events.
MaxEventsPollers == 2

\* Exceptional events in one run: the peer disconnecting, the transport
\* breaking, the shutdown signal (sent or dropped), the renderer closing, a
\* reply that cannot be sent.
MaxFaults == 1

\* ------------------------------------------------------- requests (inputs)

\* The client identifiers of the connection.
Clients == {"c1", "c2"}

\* ClientRequest: the request kinds matched in run_request.
RequestKinds ==
    {"CreateTurtle", "Export", "PollEvent",
     "DrawingProp", "SetDrawingProp", "ResetDrawingProp",
     "TurtleProp", "SetTurtleProp", "ResetTurtleProp", "ResetTurtle",
     "MoveForward", "MoveTo", "RotateInPlace",
     "BeginFill", "EndFill", "ClearAll", "ClearTurtle"}

\* The request kinds the client of the main specification sends: a handler
\* without ordering token that mutates the state (CreateTurtle), handlers
\* with token, reply, display list and notifier whose effects do not commute
\* (MoveForward, MoveTo), and the handler that touches no shared state
\* (PollEvent).
CoreKinds == {"CreateTurtle", "MoveForward", "MoveTo", "PollEvent"}

\* The request kinds of a client that polls for events next to creating and
\* moving a turtle.
PollerKinds == {"CreateTurtle", "MoveForward", "PollEvent"}

\* The request kinds of a client that exports the drawing: the handlers that
\* append to the display list and the one that reads it.
ExportKinds == {"CreateTurtle", "MoveForward", "Export", "PollEvent"}

\* The request kinds of a client that writes and reads properties next to
\* creating and moving a turtle.
PropKinds ==
    {"CreateTurtle", "MoveForward", "PollEvent",
     "SetDrawingProp", "DrawingProp", "TurtleProp"}

\* The request kinds that carry a TurtleId.
TurtleKinds ==
    {"TurtleProp", "SetTurtleProp", "ResetTurtleProp", "ResetTurtle",
     "MoveForward", "MoveTo", "RotateInPlace",
     "BeginFill", "EndFill", "ClearTurtle"}

\* The values a request of kind k may carry (property value, distance,
\* target position, angle); 0 for a kind that carries none.
ArgValues(k) ==
    CASE k = "SetDrawingProp" -> {1, 2}
      [] k = "SetTurtleProp"  -> {1}
      [] k = "MoveForward"    -> {1}
      [] k = "MoveTo"         -> {2}
      [] k = "RotateInPlace"  -> {1}
      [] OTHER                -> {0}

\* --------------------------------------------- run_request: what it passes

\* data_req_queued is moved into the handler of every kind but CreateTurtle
\* and PollEvent.
HasToken(k) == k \notin {"CreateTurtle", "PollEvent"}

\* A faulty variant of HasConn: conn is moved into every handler.
HasConn_Every(k) == k = k

\* conn (the one-shot reply sender) is moved into these handlers only.
HasConn(k) ==
    k \in {"CreateTurtle", "Export", "PollEvent", "DrawingProp", "TurtleProp",
           "MoveForward", "MoveTo", "RotateInPlace"}

\* A faulty variant of HasAppControl: create_turtle is not given the
\* application state either.
HasAppControl_NotCreate(k) == k \notin {"PollEvent", "CreateTurtle"}

\* &app_control is passed to every handler but poll_event.
HasAppControl(k) == k # "PollEvent"

\* &display_list is passed to these handlers.
HasDisplayList(k) ==
    k \in {"Export", "SetTurtleProp", "ResetTurtleProp", "ResetTurtle",
           "MoveForward", "MoveTo", "BeginFill", "ClearAll", "ClearTurtle"}

\* event_loop (the renderer notifier) is passed to these handlers.
HasEventLoop(k) ==
    k \in {"CreateTurtle", "SetDrawingProp", "ResetDrawingProp",
           "SetTurtleProp", "ResetTurtleProp", "ResetTurtle",
           "MoveForward", "MoveTo", "RotateInPlace",
           "BeginFill", "ClearAll", "ClearTurtle"}

\* A faulty variant of HasEventsReceiver: poll_event is not given the event
\* queue.
HasEventsReceiver_None(k) == k # k

\* &events_receiver is passed to poll_event only.
HasEventsReceiver(k) == k = "PollEvent"

\* ------------------------------------------------------------------ state

VARIABLES
    workload,       \* the clients of this run, the request kinds they send,
                    \*   the numbers of requests sent and of events pushed
    inbox,          \* client_requests: the (client_id, request) pairs in flight
    nsent,          \* requests sent so far
    transport,      \* "open" | "disconnected" | "error"
    shutdown,       \* server_shutdown channel: "idle" | "sent" | "dropped"
    servePc,        \* where serve is: "select" | "await_token" |
                    \*   "break_shutdown" | "break_disconnected" | "panicked"
    tasks,          \* the spawned run_request tasks, in spawn order
    gate,           \* AccessControl's exclusive gate: 0, or the holding task
    dlLock,         \* the display list's Mutex: 0, or the holding task
    evLock,         \* the events_receiver Mutex: 0, or the holding task
    app,            \* the application state (drawing property, turtles)
    displayList,    \* the display list
    events,         \* the event queue
    npushed,        \* events pushed so far
    rendererOpen,   \* whether the renderer's event loop still listens
    nfaults,        \* faults so far
    process         \* "running" | "unwound" (a panic was caught) | "aborted"

vars == <<workload, inbox, nsent, transport, shutdown, servePc, tasks, gate, dlLock,
          evLock, app, displayList, events, npushed, rendererOpen, nfaults,
          process>>

envVars == <<workload, inbox, nsent, transport, shutdown, events, npushed, rendererOpen,
            nfaults>>
sharedVars == <<gate, dlLock, evLock, app, displayList>>

TaskIds == 1..Len(tasks)

\* ------------------------------------------------- the application state

DefaultTurtle == [pos |-> 0, angle |-> 0, pen |-> 0, fill |-> FALSE]

InitApp == [bg |-> 0, turtles |-> <<>>]

HasTurtle(a, id) == id \in 1..Len(a.turtles)

SetTurtle(a, id, t) == [a EXCEPT !.turtles[id] = t]

RECURSIVE WithoutTurtle(_, _)
WithoutTurtle(dl, id) ==
    IF dl = <<>> THEN <<>>
    ELSE IF Head(dl)[1] = id THEN WithoutTurtle(Tail(dl), id)
         ELSE <<Head(dl)>> \o WithoutTurtle(Tail(dl), id)

\* What a request does to the application state and the display list, and
\* what it captures for its reply: [app, dl, cap].  A request for a turtle
\* that does not exist changes nothing and captures <<-1>>.
ApplyRequest(k, id, v, a, dl) ==
    LET same(c) == [app |-> a, dl |-> dl, cap |-> c]
        t == a.turtles[id]
    IN  IF k \in TurtleKinds /\ ~HasTurtle(a, id) THEN same(<<-1>>)
        ELSE CASE k = "CreateTurtle" ->
                    [app |-> [a EXCEPT !.turtles = Append(@, DefaultTurtle)],
                     dl |-> dl, cap |-> <<Len(a.turtles) + 1>>]
               [] k = "Export" -> same(dl)
               [] k = "DrawingProp" -> same(<<a.bg>>)
               [] k = "SetDrawingProp" ->
                    [app |-> [a EXCEPT !.bg = v], dl |-> dl, cap |-> <<>>]
               [] k = "ResetDrawingProp" ->
                    [app |-> [a EXCEPT !.bg = 0], dl |-> dl, cap |-> <<>>]
               [] k = "TurtleProp" -> same(<<t.pen>>)
               [] k = "SetTurtleProp" ->
                    [app |-> SetTurtle(a, id, [t EXCEPT !.pen = v]),
                     dl |-> dl, cap |-> <<>>]
               [] k = "ResetTurtleProp" ->
                    [app |-> SetTurtle(a, id, [t EXCEPT !.pen = 0]),
                     dl |-> dl, cap |-> <<>>]
               [] k = "ResetTurtle" ->
                    [app |-> SetTurtle(a, id, DefaultTurtle),
                     dl |-> dl, cap |-> <<>>]
               [] k = "MoveForward" ->
                    [app |-> SetTurtle(a, id, [t EXCEPT !.pos = @ + v]),
                     dl |-> Append(dl, <<id, t.pos + v>>), cap |-> <<id>>]
               [] k = "MoveTo" ->
                    [app |-> SetTurtle(a, id, [t EXCEPT !.pos = v]),
                     dl |-> Append(dl, <<id, v>>), cap |-> <<id>>]
               [] k = "RotateInPlace" ->
                    [app |-> SetTurtle(a, id, [t EXCEPT !.angle = @ + v]),
                     dl |-> dl, cap |-> <<id>>]
               [] k = "BeginFill" ->
                    [app |-> SetTurtle(a, id, [t EXCEPT !.fill = TRUE]),
                     dl |-> Append(dl, <<id, -1>>), cap |-> <<>>]
               [] k = "EndFill" ->
                    [app |-> SetTurtle(a, id, [t EXCEPT !.fill = FALSE]),
                     dl |-> dl, cap |-> <<>>]
               [] k = "ClearAll" -> [app |-> a, dl |-> <<>>, cap |-> <<>>]
               [] k = "ClearTurtle" ->
                    [app |-> a, dl |-> WithoutTurtle(dl, id), cap |-> <<>>]
               [] OTHER -> same(<<>>)

\* ------------------------------------------------- a handler's pipeline

\* The steps of a handler, in their order; a kind takes the steps it has the
\* resources for.  "gate": exclusive access to the application state is
\* acquired; "dl": the display list's lock is acquired; "applied": the
\* mutation or the snapshot read is made; "fired": the ordering token is
\* fired; "released": the locks are released; "evlock", "dequeued": the
\* event queue is locked and an event is taken; "notified": the renderer is
\* woken; "replied": the reply is sent.
Stages ==
    <<"gate", "dl", "applied", "fired", "released", "evlock", "dequeued",
      "notified", "replied">>

StageIndex(pc) ==
    IF pc = "spawned" THEN 0
    ELSE CHOOSE n \in 1..Len(Stages) : Stages[n] = pc

\* A faulty variant of Needs: no handler releases the locks it has taken
\* before its task ends.
Needs_NoRelease(k, s) ==
    CASE s \in {"gate", "applied"}     -> HasAppControl(k)
      [] s = "released"                -> FALSE
      [] s = "dl"                      -> HasDisplayList(k)
      [] s = "fired"                   -> HasToken(k)
      [] s \in {"evlock", "dequeued"}  -> HasEventsReceiver(k)
      [] s = "notified"                -> HasEventLoop(k)
      [] s = "replied"                 -> HasConn(k)

Needs(k, s) ==
    CASE s \in {"gate", "applied", "released"} -> HasAppControl(k)
      [] s = "dl"                              -> HasDisplayList(k)
      [] s = "fired"                           -> HasToken(k)
      [] s \in {"evlock", "dequeued"}          -> HasEventsReceiver(k)
      [] s = "notified"                        -> HasEventLoop(k)
      [] s = "replied"                         -> HasConn(k)

\* The step a task of kind k at pc takes next; "return" when its handler has
\* none left.
NextStage(k, pc) ==
    LET later == {n \in (StageIndex(pc) + 1)..Len(Stages) : Needs(k, Stages[n])}
    IN  IF later = {} THEN "return"
        ELSE Stages[CHOOSE n \in later : \A m \in later : n <= m]

\* A faulty variant of RunRequestEnd: an EventLoopClosed panics like an
\* IpcChannelError.
RunRequestEnd_ClosedPanics(res) ==
    CASE res = "Ok" -> "done"
      [] OTHER      -> "panicked"

\* run_request's match on the handler's result: Ok(()) ends the task, an
\* IpcChannelError panics, an EventLoopClosed is swallowed (the task ends).
RunRequestEnd(res) ==
    CASE res = "Ok"              -> "done"
      [] res = "IpcChannelError" -> "panicked"
      [] res = "EventLoopClosed" -> "closed"

Running(t) == t.pc \notin {"done", "closed", "panicked"}

\* run_request's end: its future is dropped, and with it the sender
\* data_req_queued when no handler has consumed it.
DropToken(t) == [t EXCEPT !.token = IF @ = "pending" THEN "dropped" ELSE @]

\* Task t after it has taken step s: at s, or returned with Ok(()) when s
\* was its handler's last step.
AfterStage(t, s) ==
    IF NextStage(t.kind, s) = "return"
    THEN DropToken([t EXCEPT !.pc = RunRequestEnd("Ok")])
    ELSE [t EXCEPT !.pc = s]

CanTake(i, s) ==
    /\ process # "aborted"
    /\ i \in TaskIds
    /\ Running(tasks[i])
    /\ NextStage(tasks[i].kind, tasks[i].pc) = s

\* ----------------------------------------------------------- Init

InitServer ==
    /\ inbox = <<>>
    /\ nsent = 0
    /\ transport = "open"
    /\ shutdown = "idle"
    /\ servePc = "select"
    /\ tasks = <<>>
    /\ gate = 0
    /\ dlLock = 0
    /\ evLock = 0
    /\ app = InitApp
    /\ displayList = <<>>
    /\ events = <<>>
    /\ npushed = 0
    /\ rendererOpen = TRUE
    /\ nfaults = 0
    /\ process = "running"

\* One client sending the core kinds.
Init ==
    /\ workload = [clients |-> {"c1"}, kinds |-> CoreKinds,
                   requests |-> MaxRequests, events |-> MaxEvents]
    /\ InitServer

\* Two clients sending every kind.
InitAllKinds ==
    /\ workload = [clients |-> Clients, kinds |-> RequestKinds,
                   requests |-> MaxRequestsAllKinds, events |-> MaxEvents]
    /\ InitServer

\* One client that creates a turtle, moves it and polls, with two events.
InitPollers ==
    /\ workload = [clients |-> {"c1"}, kinds |-> PollerKinds,
                   requests |-> MaxRequests, events |-> MaxEventsPollers]
    /\ InitServer

\* Two clients that create turtles, move them and poll.
InitTwoClients ==
    /\ workload = [clients |-> Clients, kinds |-> PollerKinds,
                   requests |-> MaxRequestsShort, events |-> MaxEvents]
    /\ InitServer

\* One client that writes and reads properties.
InitProps ==
    /\ workload = [clients |-> {"c1"}, kinds |-> PropKinds,
                   requests |-> MaxRequestsShort, events |-> MaxEvents]
    /\ InitServer

\* One client that creates a turtle, moves it, exports and polls.
InitExport ==
    /\ workload = [clients |-> {"c1"}, kinds |-> ExportKinds,
                   requests |-> MaxRequests, events |-> MaxEvents]
    /\ InitServer

\* ------------------------------------------------- the environment

\* The turtle ids a client has been told of (the NewTurtle replies).
KnownTurtles ==
    {tasks[i].replies[1].body[1] :
        i \in {j \in TaskIds : /\ tasks[j].kind = "CreateTurtle"
                               /\ tasks[j].replies # <<>>}}

RequestIds(k) == IF k \in TurtleKinds THEN KnownTurtles ELSE {0}

\* A client sends a request.
ClientSend ==
    /\ process # "aborted"
    /\ transport = "open"
    /\ nsent < workload.requests
    /\ \E c \in workload.clients, k \in workload.kinds :
         \E id \in RequestIds(k), v \in ArgValues(k) :
            inbox' = Append(inbox, [client |-> c, kind |-> k, id |-> id, v |-> v])
    /\ nsent' = nsent + 1
    /\ UNCHANGED <<workload, transport, shutdown, servePc, tasks, sharedVars,
                   events, npushed, rendererOpen, nfaults, process>>

\* The peer closes the connection.
ClientDisconnect ==
    /\ process # "aborted"
    /\ nfaults < MaxFaults
    /\ nfaults' = nfaults + 1
    /\ transport = "open"
    /\ transport' = "disconnected"
    /\ UNCHANGED <<workload, inbox, nsent, shutdown, servePc, tasks, sharedVars, events,
                   npushed, rendererOpen, process>>

\* The transport breaks (an I/O or decoding error).
TransportFail ==
    /\ process # "aborted"
    /\ nfaults < MaxFaults
    /\ nfaults' = nfaults + 1
    /\ transport = "open"
    /\ transport' = "error"
    /\ UNCHANGED <<workload, inbox, nsent, shutdown, servePc, tasks, sharedVars, events,
                   npushed, rendererOpen, process>>

\* The main thread sends the shutdown signal.
SendShutdown ==
    /\ process # "aborted"
    /\ nfaults < MaxFaults
    /\ nfaults' = nfaults + 1
    /\ shutdown = "idle"
    /\ shutdown' = "sent"
    /\ UNCHANGED <<workload, inbox, nsent, transport, servePc, tasks, sharedVars, events,
                   npushed, rendererOpen, process>>

\* The main thread drops the shutdown sender (it panicked).
DropShutdownSender ==
    /\ process # "aborted"
    /\ nfaults < MaxFaults
    /\ nfaults' = nfaults + 1
    /\ shutdown = "idle"
    /\ shutdown' = "dropped"
    /\ UNCHANGED <<workload, inbox, nsent, transport, servePc, tasks, sharedVars, events,
                   npushed, rendererOpen, process>>

\* The renderer pushes an event.
PushEvent ==
    /\ process # "aborted"
    /\ npushed < workload.events
    /\ events' = Append(events, npushed + 1)
    /\ npushed' = npushed + 1
    /\ UNCHANGED <<workload, inbox, nsent, transport, shutdown, servePc, tasks,
                   sharedVars, rendererOpen, nfaults, process>>

\* The renderer's window closes: the notifier's channel is closed.
RendererClose ==
    /\ process # "aborted"
    /\ nfaults < MaxFaults
    /\ nfaults' = nfaults + 1
    /\ rendererOpen
    /\ rendererOpen' = FALSE
    /\ UNCHANGED <<workload, inbox, nsent, transport, shutdown, servePc, tasks,
                   sharedVars, events, npushed, process>>

\* ------------------------------------------------------------ serve

\* What client_requests.recv() may return now: the next request, in FIFO
\* order; Disconnected once the peer is gone and nothing is queued; another
\* error when the transport is broken.  The empty set: recv() is pending.
ClientRecv ==
    (IF inbox # <<>> THEN {[ok |-> TRUE, req |-> Head(inbox), err |-> "none"]}
     ELSE {})
    \cup (IF inbox = <<>> /\ transport = "disconnected"
          THEN {[ok |-> FALSE, req |-> <<>>, err |-> "Disconnected"]} ELSE {})
    \cup (IF transport = "error"
          THEN {[ok |-> FALSE, req |-> <<>>, err |-> e] : e \in {"Io", "Bincode"}}
          ELSE {})

\* A faulty variant of RecvErrPc: every error panics.
RecvErrPc_AlwaysPanic(err) ==
    IF err = "" THEN "break_disconnected" ELSE "panicked"

\* A faulty variant of RecvErrPc: every error breaks the loop.
RecvErrPc_AlwaysBreak(err) ==
    IF err = "" THEN "panicked" ELSE "break_disconnected"

\* The match on recv()'s error: Disconnected breaks the loop, any other
\* error panics.
RecvErrPc(err) ==
    IF err = "Disconnected" THEN "break_disconnected" ELSE "panicked"

\* A faulty variant of SpawnedTask: the task is spawned without the token's
\* sender, which is dropped at once.
SpawnedTask_TokenDropped(req) ==
    [client |-> req.client, kind |-> req.kind, id |-> req.id, v |-> req.v,
     conn |-> req.client, pc |-> "spawned", token |-> "dropped",
     replies |-> <<>>, cap |-> <<>>]

\* A faulty variant of SpawnedTask: the reply sender is bound to the client
\* of the first request of the connection, not to the request's own.
SpawnedTask_ConnOfFirst(req) ==
    [client |-> req.client, kind |-> req.kind, id |-> req.id, v |-> req.v,
     conn |-> IF tasks = <<>> THEN req.client ELSE tasks[1].conn,
     pc |-> "spawned", token |-> "pending", replies |-> <<>>, cap |-> <<>>]

\* tokio::spawn(run_request(data_req_queued, ServerOneshotSender::new(
\* client_id, conn.clone()), ..., request)): the new task, with a fresh
\* ordering token and a reply sender bound to the request's client.
SpawnedTask(req) ==
    [client |-> req.client, kind |-> req.kind, id |-> req.id, v |-> req.v,
     conn |-> req.client, pc |-> "spawned", token |-> "pending",
     replies |-> <<>>, cap |-> <<>>]

\* A faulty variant of TokenResolved: the wait ends only when the token is
\* fired (the error of a dropped sender is not ignored).
TokenResolved_FiredOnly(tok) == tok = "fired"

\* A faulty variant of TokenResolved: serve does not wait for the token.
TokenResolved_NoWait(tok) == tok \in {"pending", "fired", "dropped"}

\* data_req_queued_receiver.await.unwrap_or(()): the wait ends when the
\* token is fired and when its sender is dropped.
TokenResolved(tok) == tok \in {"fired", "dropped"}

\* How the process goes on after a panic: the panic unwinds (the task ends,
\* the runtime goes on) or aborts the process, as the build decides; one
\* run has one build.
AfterPanic ==
    IF process = "running" THEN {"unwound", "aborted"} ELSE {process}

\* select!: the shutdown branch (Some(()) or None) is ready.
ServeShutdown ==
    /\ process # "aborted"
    /\ servePc = "select"
    /\ shutdown # "idle"
    /\ servePc' = "break_shutdown"
    /\ UNCHANGED <<envVars, tasks, sharedVars, process>>

\* select!: recv() returns Ok(req); the token is created and the task
\* spawned; serve then waits for the token.
ServeRequest ==
    /\ process # "aborted"
    /\ servePc = "select"
    /\ \E r \in ClientRecv :
         /\ r.ok
         /\ tasks' = Append(tasks, SpawnedTask(r.req))
    /\ inbox' = Tail(inbox)
    /\ servePc' = "await_token"
    /\ UNCHANGED <<workload, nsent, transport, shutdown, events, npushed,
                   rendererOpen, nfaults, sharedVars, process>>

\* select!: recv() returns Err(IpcError::Disconnected).
ServeDisconnected ==
    /\ process # "aborted"
    /\ servePc = "select"
    /\ \E r \in ClientRecv :
         /\ ~r.ok
         /\ RecvErrPc(r.err) = "break_disconnected"
         /\ servePc' = "break_disconnected"
    /\ UNCHANGED <<envVars, tasks, sharedVars, process>>

\* select!: recv() returns another error: panic!.
ServeRecvPanic ==
    /\ process # "aborted"
    /\ servePc = "select"
    /\ \E r \in ClientRecv :
         /\ ~r.ok
         /\ RecvErrPc(r.err) = "panicked"
         /\ servePc' = "panicked"
    /\ process' \in AfterPanic
    /\ UNCHANGED <<envVars, tasks, sharedVars>>

\* The wait for the ordering token of the request just spawned ends.
ServeTokenResolved ==
    /\ process # "aborted"
    /\ servePc = "await_token"
    /\ TokenResolved(tasks[Len(tasks)].token)
    /\ servePc' = "select"
    /\ UNCHANGED <<envVars, tasks, sharedVars, process>>

\* ------------------------------------------------------ the handlers

Unlock(l, i) == IF l = i THEN 0 ELSE l

\* The handler acquires exclusive access to the application state.
AcquireApp(i) ==
    /\ CanTake(i, "gate")
    /\ gate = 0
    /\ gate' = i
    /\ tasks' = [tasks EXCEPT ![i] = AfterStage(@, "gate")]
    /\ UNCHANGED <<envVars, servePc, dlLock, evLock, app, displayList, process>>

\* The handler locks the display list.
AcquireDisplayList(i) ==
    /\ CanTake(i, "dl")
    /\ dlLock = 0
    /\ dlLock' = i
    /\ tasks' = [tasks EXCEPT ![i] = AfterStage(@, "dl")]
    /\ UNCHANGED <<envVars, servePc, gate, evLock, app, displayList, process>>

\* The handler mutates the state (or reads its snapshot) under the locks.
Apply(i) ==
    /\ CanTake(i, "applied")
    /\ LET t == tasks[i]
           r == ApplyRequest(t.kind, t.id, t.v, app, displayList)
       IN  /\ app' = r.app
           /\ displayList' = r.dl
           /\ tasks' = [tasks EXCEPT ![i] = AfterStage([t EXCEPT !.cap = r.cap], "applied")]
    /\ UNCHANGED <<envVars, servePc, gate, dlLock, evLock, process>>

\* The handler fires the ordering token.
FireToken(i) ==
    /\ CanTake(i, "fired")
    /\ tasks' = [tasks EXCEPT ![i] = AfterStage([@ EXCEPT !.token = "fired"], "fired")]
    /\ UNCHANGED <<envVars, servePc, sharedVars, process>>

\* The handler releases the locks it holds.
Release(i) ==
    /\ CanTake(i, "released")
    /\ gate' = Unlock(gate, i)
    /\ dlLock' = Unlock(dlLock, i)
    /\ tasks' = [tasks EXCEPT ![i] = AfterStage(@, "released")]
    /\ UNCHANGED <<envVars, servePc, evLock, app, displayList, process>>

\* poll_event locks the event queue's receiver.
LockEvents(i) ==
    /\ CanTake(i, "evlock")
    /\ evLock = 0
    /\ evLock' = i
    /\ tasks' = [tasks EXCEPT ![i] = AfterStage(@, "evlock")]
    /\ UNCHANGED <<envVars, servePc, gate, dlLock, app, displayList, process>>

\* poll_event takes the next event; it stays suspended on an empty queue.
Dequeue(i) ==
    /\ CanTake(i, "dequeued")
    /\ events # <<>>
    /\ events' = Tail(events)
    /\ evLock' = Unlock(evLock, i)
    /\ tasks' = [tasks EXCEPT ![i] = AfterStage([@ EXCEPT !.cap = <<Head(events)>>], "dequeued")]
    /\ UNCHANGED <<workload, inbox, nsent, transport, shutdown, npushed, rendererOpen,
                   nfaults, servePc, gate, dlLock, app, displayList, process>>

\* The handler wakes the renderer; with the renderer gone it returns
\* Err(EventLoopClosed), which run_request swallows.
Notify(i) ==
    /\ CanTake(i, "notified")
    /\ tasks' = [tasks EXCEPT ![i] =
                    IF rendererOpen THEN AfterStage(@, "notified")
                    ELSE DropToken([@ EXCEPT !.pc = RunRequestEnd("EventLoopClosed")])]
    /\ UNCHANGED <<envVars, servePc, sharedVars, process>>

\* What a reply of kind k may say: an export may fail and says so.
ReplyResults(k) == IF k = "Export" THEN {"Ok", "ExportError"} ELSE {"Ok"}

\* The handler sends its reply through conn.
Reply(i) ==
    /\ CanTake(i, "replied")
    /\ \E res \in ReplyResults(tasks[i].kind) :
         tasks' = [tasks EXCEPT ![i] =
                     AfterStage([@ EXCEPT !.replies =
                                    Append(@, [to |-> tasks[i].conn, res |-> res,
                                               body |-> tasks[i].cap])],
                                "replied")]
    /\ UNCHANGED <<envVars, servePc, sharedVars, process>>

\* Sending the reply fails: the handler returns Err(IpcChannelError) and
\* run_request panics.
ReplyPanic(i) ==
    /\ CanTake(i, "replied")
    /\ nfaults < MaxFaults
    /\ nfaults' = nfaults + 1
    /\ tasks' = [tasks EXCEPT ![i] =
                    DropToken([@ EXCEPT !.pc = RunRequestEnd("IpcChannelError")])]
    /\ process' \in AfterPanic
    /\ UNCHANGED <<workload, inbox, nsent, transport, shutdown, events, npushed,
                   rendererOpen, servePc, sharedVars>>

\* ------------------------------------------------------------- Next

Environment ==
    \/ ClientSend
    \/ ClientDisconnect
    \/ TransportFail
    \/ SendShutdown
    \/ DropShutdownSender
    \/ PushEvent
    \/ RendererClose

Serve ==
    \/ ServeShutdown
    \/ ServeRequest
    \/ ServeDisconnected
    \/ ServeRecvPanic
    \/ ServeTokenResolved

RunRequest(i) ==
    \/ AcquireApp(i)
    \/ AcquireDisplayList(i)
    \/ Apply(i)
    \/ FireToken(i)
    \/ Release(i)
    \/ LockEvents(i)
    \/ Dequeue(i)
    \/ Notify(i)
    \/ Reply(i)
    \/ ReplyPanic(i)

\* A step of the server: of serve or of a spawned task.
Server == Serve \/ \E i \in TaskIds : RunRequest(i)

Next ==
    \/ ClientSend
    \/ ClientDisconnect
    \/ TransportFail
    \/ SendShutdown
    \/ DropShutdownSender
    \/ PushEvent
    \/ RendererClose
    \/ ServeShutdown
    \/ ServeRequest
    \/ ServeDisconnected
    \/ ServeRecvPanic
    \/ ServeTokenResolved
    \/ \E i \in TaskIds : AcquireApp(i)
    \/ \E i \in TaskIds : AcquireDisplayList(i)
    \/ \E i \in TaskIds : Apply(i)
    \/ \E i \in TaskIds : FireToken(i)
    \/ \E i \in TaskIds : Release(i)
    \/ \E i \in TaskIds : LockEvents(i)
    \/ \E i \in TaskIds : Dequeue(i)
    \/ \E i \in TaskIds : Notify(i)
    \/ \E i \in TaskIds : Reply(i)
    \/ \E i \in TaskIds : ReplyPanic(i)

Spec == Init /\ [][Next]_vars

SpecAllKinds == InitAllKinds /\ [][Next]_vars

SpecPollers == InitPollers /\ [][Next]_vars

SpecExport == InitExport /\ [][Next]_vars

SpecTwoClients == InitTwoClients /\ [][Next]_vars

SpecProps == InitProps /\ [][Next]_vars

\* ------------------------------------------------------------ claims

RECURSIVE ApplyAll(_, _, _)
\* The state reached by applying the requests of ts one after the other.
ApplyAll(ts, a, dl) ==
    IF ts = <<>> THEN [app |-> a, dl |-> dl]
    ELSE LET r == ApplyRequest(Head(ts).kind, Head(ts).id, Head(ts).v, a, dl)
         IN  ApplyAll(Tail(ts), r.app, r.dl)

AllFinished == \A i \in TaskIds : ~Running(tasks[i])

\* C1: once every spawned handler has finished, the application state is
\* the one obtained by applying the received requests one after the other
\* in receipt order (tasks is the receipt order), whatever the interleaving
\* of the tasks was.
C1_StateIsSequentialApplication ==
    AllFinished => app = ApplyAll(tasks, InitApp, <<>>).app

\* C1's case: two requests whose effects do not commute have both finished.
C1_Witness ==
    /\ AllFinished
    /\ \E i, j \in TaskIds :
         /\ i < j
         /\ tasks[i].kind = "MoveTo"
         /\ tasks[j].kind = "MoveForward"
         /\ tasks[i].id = tasks[j].id
         /\ app.turtles[tasks[i].id].pos = tasks[i].v + tasks[j].v

\* A task has begun its capture of the application state: it holds, or has
\* held, the exclusive gate.
CaptureBegun(t) == t.pc # "spawned"

\* A task has completed its capture or mutation of the application state.
CaptureCompleted(t) == t.pc \notin {"spawned", "gate", "dl"}

\* C2: of two requests that both need exclusive access to the application
\* state, the one received later begins its capture only after the earlier
\* one has completed its own.
C2_CapturesInReceiptOrder ==
    \A i, j \in TaskIds :
        (/\ i < j
         /\ HasAppControl(tasks[i].kind)
         /\ HasAppControl(tasks[j].kind)
         /\ CaptureBegun(tasks[j]))
        => CaptureCompleted(tasks[i])

\* C2's case: the later request holds the gate while the earlier one, past
\* its mutation, is still running.
C2_Witness ==
    \E i, j \in TaskIds :
        /\ i < j
        /\ HasAppControl(tasks[i].kind)
        /\ Running(tasks[i])
        /\ gate = j
        /\ tasks[j].pc = "gate"

\* The kinds whose handler run_request gives the reply sender, and the
\* others.
ReplyKinds ==
    {"CreateTurtle", "Export", "PollEvent", "DrawingProp", "TurtleProp",
     "MoveForward", "MoveTo", "RotateInPlace"}

NoReplyKinds ==
    {"SetDrawingProp", "ResetDrawingProp", "SetTurtleProp", "ResetTurtleProp",
     "ResetTurtle", "BeginFill", "EndFill", "ClearAll", "ClearTurtle"}

\* C3 as stated, for the handlers that have returned Ok: every such
\* request, of every kind, has exactly one reply, sent to its originating
\* client.
C3_ExactlyOneReplyEveryKind ==
    \A i \in TaskIds :
        tasks[i].pc = "done" =>
            /\ Len(tasks[i].replies) = 1
            /\ tasks[i].replies[1].to = tasks[i].client

\* C3, amended: no request has more than one reply and every reply goes to
\* the request's originating client; a request of a kind whose handler is
\* given the reply sender has exactly one reply once its handler has
\* returned Ok; a request of another kind has none.
C3_RepliesByKind ==
    \A i \in TaskIds :
        /\ Len(tasks[i].replies) <= 1
        /\ \A n \in 1..Len(tasks[i].replies) :
              tasks[i].replies[n].to = tasks[i].client
        /\ tasks[i].kind \in NoReplyKinds => tasks[i].replies = <<>>
        /\ (tasks[i].kind \in ReplyKinds /\ tasks[i].pc = "done")
              => Len(tasks[i].replies) = 1

\* C3's case: a request of a kind without reply sender has finished without
\* a reply, and a request of the second client has been replied to.
C3_Witness ==
    \E i, j \in TaskIds :
        /\ tasks[i].kind = "SetDrawingProp"
        /\ tasks[i].pc = "done"
        /\ tasks[i].replies = <<>>
        /\ tasks[j].kind \in ReplyKinds
        /\ tasks[j].client = "c2"
        /\ tasks[j].pc = "done"
        /\ Len(tasks[j].replies) = 1
        /\ tasks[j].replies[1].to = "c2"

\* C4: a PollEvent handler finishes while an earlier state-mutating request
\* has not replied only when that request has fired its ordering token (the
\* case itself is C4_Witness, which is reachable).
C4_PollOvertakesAfterToken ==
    \A i, j \in TaskIds :
        (/\ i < j
         /\ tasks[i].kind \in {"MoveForward", "MoveTo"}
         /\ Running(tasks[i])
         /\ tasks[i].replies = <<>>
         /\ tasks[j].kind = "PollEvent"
         /\ tasks[j].pc = "done")
        => tasks[i].token = "fired"

\* C4's case: the PollEvent received right after a state-mutating request
\* has finished, with its reply sent, while the earlier handler has fired
\* its token and has not replied.
C4_Witness ==
    \E i \in TaskIds :
        /\ i + 1 \in TaskIds
        /\ tasks[i].kind = "MoveForward"
        /\ tasks[i].token = "fired"
        /\ Running(tasks[i])
        /\ tasks[i].replies = <<>>
        /\ tasks[i + 1].kind = "PollEvent"
        /\ tasks[i + 1].pc = "done"
        /\ Len(tasks[i + 1].replies) = 1

\* C5: serve is not kept waiting on the ordering token of a PollEvent
\* handler that is suspended on the empty event queue.
C5_PollNeverThrottles ==
    \A i \in TaskIds :
        (/\ tasks[i].kind = "PollEvent"
         /\ tasks[i].pc = "evlock"
         /\ events = <<>>
         /\ i = Len(tasks)
         /\ servePc = "await_token")
        => TokenResolved(tasks[i].token)

\* C6: once the shutdown signal has been sent, no handler is spawned.
C6_NoSpawnAfterShutdown ==
    [][shutdown = "sent" => Len(tasks') = Len(tasks)]_vars

\* C7, for a run whose transport has not failed: when the shutdown signal
\* has been sent or its sender dropped and the server can take no further
\* step, the serve loop has ended without panicking.
C7_ShutdownEndsServe ==
    (/\ shutdown # "idle"
     /\ transport # "error"
     /\ process # "aborted"
     /\ ~ENABLED Server)
    => servePc \in {"break_shutdown", "break_disconnected"}

\* C8: when recv() can only report Disconnected, the step serve takes out
\* of select! ends the loop without panic, leaves the process as it is and
\* spawns nothing; and once the loop has ended on a disconnect it stays
\* ended and no handler is spawned.
C8_DisconnectStopsServe ==
    [][/\ (/\ servePc = "select"
           /\ inbox = <<>>
           /\ transport = "disconnected"
           /\ servePc' # "select")
          => /\ servePc' \in {"break_disconnected", "break_shutdown"}
             /\ process' = process
             /\ tasks' = tasks
       /\ servePc = "break_disconnected"
          => /\ servePc' = "break_disconnected"
             /\ Len(tasks') = Len(tasks)]_vars

\* C8's case: the loop has ended on a disconnect while a handler spawned
\* before is still running.
C8_Witness ==
    /\ servePc = "break_disconnected"
    /\ process = "running"
    /\ \E i \in TaskIds : Running(tasks[i])

\* C9: when recv() fails on a broken transport, serve panics instead of
\* ending the loop cleanly; once it has panicked it stays so and no handler
\* is spawned.
C9_TransportErrorPanics ==
    [][/\ (/\ servePc = "select"
           /\ transport = "error"
           /\ servePc' \in {"break_disconnected", "panicked"})
          => /\ servePc' = "panicked"
             /\ tasks' = tasks
       /\ servePc = "panicked"
          => /\ servePc' = "panicked"
             /\ Len(tasks') = Len(tasks)]_vars

\* C9's case: serve has panicked with a request still queued.
C9_Witness ==
    /\ servePc = "panicked"
    /\ inbox # <<>>

\* C10: after a run_request task has panicked on a reply that could not be
\* sent, serve spawns no further handler (as it could not in an aborted
\* server).
C10_NoDispatchAfterReplyFailure ==
    [][(\E i \in TaskIds : tasks[i].pc = "panicked")
          => Len(tasks') = Len(tasks)]_vars

\* C11: no request has more than one reply; every reply of a request is
\* addressed to the client identifier the request was received with; and the
\* reply sender a task holds is the one created for its own request: it is
\* bound to that request's client from the spawn to the task's end.
C11_ReplyPathSingleUse ==
    \A i \in TaskIds :
        /\ tasks[i].conn = tasks[i].client
        /\ Len(tasks[i].replies) <= 1
        /\ \A n \in 1..Len(tasks[i].replies) :
              tasks[i].replies[n].to = tasks[i].client

\* C11's case: the requests of two different clients have both been replied
\* to, and both handlers have ended.
C11_Witness ==
    \E i, j \in TaskIds :
        /\ tasks[i].client = "c1"
        /\ tasks[j].client = "c2"
        /\ ~Running(tasks[i])
        /\ ~Running(tasks[j])
        /\ Len(tasks[i].replies) = 1
        /\ Len(tasks[j].replies) = 1
        /\ tasks[i].replies[1].to = "c1"
        /\ tasks[j].replies[1].to = "c2"

\* The first move of a turtle: no earlier request has moved it.
FirstMove(j) ==
    \A i \in 1..(j - 1) :
        ~(tasks[i].kind \in {"MoveForward", "MoveTo"} /\ tasks[i].id = tasks[j].id)

\* C12: the reply to a CreateTurtle names a turtle that is in the
\* application state; a MoveForward for an id a CreateTurtle has returned
\* finds the turtle (it never captures "no such turtle"), and when it is the
\* turtle's first move it starts from the default pose: the segment it
\* draws ends at the default position plus its distance.
C12_MoveFindsCreatedTurtle ==
    /\ \A i \in TaskIds :
          (tasks[i].kind = "CreateTurtle" /\ tasks[i].replies # <<>>)
          => /\ Len(tasks[i].replies[1].body) = 1
             /\ HasTurtle(app, tasks[i].replies[1].body[1])
    /\ \A j \in TaskIds :
          (tasks[j].kind = "MoveForward" /\ CaptureCompleted(tasks[j]))
          => /\ tasks[j].cap = <<tasks[j].id>>
             /\ FirstMove(j) =>
                   \E n \in 1..Len(displayList) :
                       displayList[n] = <<tasks[j].id, DefaultTurtle.pos + tasks[j].v>>

\* C12's case: the MoveForward received right after the CreateTurtle that
\* returned its turtle id has moved the turtle from its default position.
C12_Witness ==
    \E i \in TaskIds :
        /\ i + 1 \in TaskIds
        /\ tasks[i].kind = "CreateTurtle"
        /\ Len(tasks[i].replies) = 1
        /\ tasks[i + 1].kind = "MoveForward"
        /\ tasks[i + 1].id = tasks[i].replies[1].body[1]
        /\ CaptureCompleted(tasks[i + 1])
        /\ app.turtles[tasks[i + 1].id].pos = DefaultTurtle.pos + tasks[i + 1].v

\* Request i is the last write of the drawing property received before
\* request j.
LastDrawingWrite(i, j) ==
    /\ i < j
    /\ tasks[i].kind = "SetDrawingProp"
    /\ \A m \in (i + 1)..(j - 1) :
          tasks[m].kind \notin {"SetDrawingProp", "ResetDrawingProp"}

\* C13: a DrawingProp read received after a SetDrawingProp captures, and
\* replies with, the value that was set, never the value the property had
\* before, although the two requests run as separate tasks.
C13_ReadSeesEarlierWrite ==
    \A i, j \in TaskIds :
        (/\ LastDrawingWrite(i, j)
         /\ tasks[j].kind = "DrawingProp"
         /\ CaptureCompleted(tasks[j]))
        => /\ tasks[j].cap = <<tasks[i].v>>
           /\ \A n \in 1..Len(tasks[j].replies) :
                 tasks[j].replies[n].body = <<tasks[i].v>>

\* C13's case: the read has replied with the value set while the handler
\* of the SetDrawingProp is still running.
C13_Witness ==
    \E i, j \in TaskIds :
        /\ LastDrawingWrite(i, j)
        /\ tasks[i].v # InitApp.bg
        /\ Running(tasks[i])
        /\ tasks[j].kind = "DrawingProp"
        /\ Len(tasks[j].replies) = 1
        /\ tasks[j].replies[1].body = <<tasks[i].v>>

\* The PollEvent tasks that have taken an event from the queue.
Served == {i \in TaskIds : tasks[i].kind = "PollEvent" /\ tasks[i].cap # <<>>}

C15_DroppedTokenEndsWait ==
    /\ \A i \in TaskIds :
          ~Running(tasks[i]) => tasks[i].token \in {"fired", "dropped"}
    /\ (/\ process # "aborted"
        /\ servePc = "await_token"
        /\ ~Running(tasks[Len(tasks)]))
       => ENABLED ServeTokenResolved

\* C15's case: serve waits on the token of a task that has ended by error or
\* panic without firing it.
C15_Witness ==
    /\ process # "aborted"
    /\ servePc = "await_token"
    /\ tasks[Len(tasks)].pc \in {"closed", "panicked"}
    /\ tasks[Len(tasks)].token = "dropped"

\* The tasks of ts whose ordering token is neither fired nor dropped.
Unresolved(ts) == {i \in 1..Len(ts) : ts[i].token = "pending"}

\* C16: at every step at most one dispatched request has an ordering token
\* that is neither fired nor dropped, and it is the request dispatched last;
\* a step that dispatches a request takes the head of the transport's queue,
\* creates one pending token for it, appends its task after the tasks
\* spawned before, and is taken only when the token of every earlier
\* request is fired or dropped.
C16_OneUnresolvedToken ==
    [][/\ Unresolved(tasks) \subseteq {Len(tasks)}
       /\ Unresolved(tasks') \subseteq {Len(tasks')}
       /\ Len(tasks') # Len(tasks)
          => /\ Unresolved(tasks) = {}
             /\ inbox # <<>>
             /\ inbox' = Tail(inbox)
             /\ Len(tasks') = Len(tasks) + 1
             /\ SubSeq(tasks', 1, Len(tasks)) = tasks
             /\ LET t == tasks'[Len(tasks')]
                IN  /\ t.token = "pending"
                    /\ <<t.client, t.kind, t.id, t.v>>
                         = <<Head(inbox).client, Head(inbox).kind,
                             Head(inbox).id, Head(inbox).v>>]_vars

\* C16's case: the request dispatched last has a pending token while the
\* handler of an earlier request, its token fired, is still running.
C16_Witness ==
    \E i \in TaskIds :
        /\ i < Len(tasks)
        /\ Running(tasks[i])
        /\ tasks[i].token = "fired"
        /\ tasks[Len(tasks)].token = "pending"
        /\ servePc = "await_token"

\* The tasks inside their exclusive access to the application state: the
\* gate acquired and not yet released.
InExclusiveAccess ==
    {i \in TaskIds : /\ HasAppControl(tasks[i].kind)
                     /\ tasks[i].pc \in {"gate", "dl", "applied", "fired"}}

\* What request j captures when every request received before it is fully
\* applied and nothing else is.
CaptureAfterEarlier(j) ==
    LET before == ApplyAll(SubSeq(tasks, 1, j - 1), InitApp, <<>>)
    IN  ApplyRequest(tasks[j].kind, tasks[j].id, tasks[j].v,
                     before.app, before.dl).cap

\* C17: at most one handler is inside its exclusive access to the
\* application state, and it is the holder of the gate; and what a handler
\* that reads the application state has captured is the value in the state
\* with the mutations of all earlier requests applied in full.
C17_OneMutationAtATime ==
    /\ Cardinality(InExclusiveAccess) <= 1
    /\ InExclusiveAccess = (IF gate = 0 THEN {} ELSE {gate})
    /\ \A j \in TaskIds :
          (/\ tasks[j].kind \in {"DrawingProp", "TurtleProp"}
           /\ CaptureCompleted(tasks[j]))
          => tasks[j].cap = CaptureAfterEarlier(j)

\* C17's case: a read holds the gate and has captured the value an earlier
\* request has set, while the handler of that request is still running.
C17_Witness ==
    \E i, j \in TaskIds :
        /\ i < j
        /\ tasks[i].kind = "SetDrawingProp"
        /\ Running(tasks[i])
        /\ tasks[j].kind = "DrawingProp"
        /\ gate = j
        /\ tasks[j].pc = "applied"
        /\ tasks[j].cap = <<tasks[i].v>>

\* The display list with the requests received before request j applied
\* one after the other, and no other.
DisplayListBefore(j) == ApplyAll(SubSeq(tasks, 1, j - 1), InitApp, <<>>).dl

\* C18: the snapshot of the display list an Export has read, and the one
\* it replies with, is the display list with the mutations of exactly the
\* requests received before the Export, whatever the interleaving of the
\* tasks.
C18_ExportSnapshot ==
    \A j \in TaskIds :
        (tasks[j].kind = "Export" /\ CaptureCompleted(tasks[j]))
        => /\ tasks[j].cap = DisplayListBefore(j)
           /\ \A n \in 1..Len(tasks[j].replies) :
                 tasks[j].replies[n].body = DisplayListBefore(j)

\* C18's case: an Export has replied with a snapshot that holds the segment
\* of an earlier move whose handler is still running.
C18_Witness ==
    \E i, j \in TaskIds :
        /\ i < j
        /\ tasks[i].kind = "MoveForward"
        /\ Running(tasks[i])
        /\ tasks[j].kind = "Export"
        /\ Len(tasks[j].replies) = 1
        /\ tasks[j].replies[1].body # <<>>
        /\ tasks[j].replies[1].body = displayList

C20_LocksHeldByLiveTasks ==
    process # "aborted" =>
        /\ \A i \in TaskIds : ~Running(tasks[i]) => (gate # i /\ dlLock # i)
        /\ gate \in {0} \cup TaskIds
        /\ dlLock \in {0, gate}
        /\ \A i \in TaskIds : gate = i => ENABLED RunRequest(i)

\* C20's case: a task that used the application state has ended by error or
\* panic, the process lives, and a request received later holds the gate.
C20_Witness ==
    \E i, j \in TaskIds :
        /\ i < j
        /\ HasAppControl(tasks[i].kind)
        /\ tasks[i].pc \in {"closed", "panicked"}
        /\ process # "aborted"
        /\ gate = j

====
